---- MODULE Spec2Model ----
(***************************************************************************)
(* PyStreets: the street network (street_network.py) and the traffic       *)
(* assignment simulation (simulation.py).                                  *)
(*                                                                         *)
(* Numbers.  The program computes with floats; the model computes with     *)
(* scaled integers and floor division:                                     *)
(*   lengths            metres                                             *)
(*   number_of_lanes    half lanes (GraphBuilder passes lanes / 2)         *)
(*   speeds             1/10 km/h  (max_speed itself is kept in km/h)      *)
(*   jam_tolerance      tenths                                             *)
(*   driving_time       10000 * length / speed                             *)
(* An exception that leaves step or road_construction ends the run: pc is   *)
(* "failed" and error names the exception.                                  *)
(***************************************************************************)
EXTENDS Integers, Sequences, FiniteSets, TLC

(* ---------------- bounds of the model ---------------- *)
MaxStreets == 3
MaxTrips == 2
MaxSteps == 2

MaxCalls == 3
MaxRCStreets == 21
MaxPathStreets == 4
MaxLoad == 6
MaxResidents == 3
MaxSimulationSteps == 3
MaxStrayFiles == 2
MaxVisualizeSteps == 12

NodeIds == {1, 2, 3}
\* (origin, goal) pairs a trip is drawn from; 4 is not a node of the graph
TripPairs == {<<1, 3>>, <<3, 1>>, <<1, 4>>, <<4, 1>>}
JamTolerances == {0, 6}

(* ---------------- settings.py ---------------- *)
car_length == 4
min_breaking_distance == 1
braking_deceleration == 75
trip_volume == 1

VARIABLES
    nodes,               \* StreetNetwork._graph nodes
    streets,             \* StreetNetwork._graph edges: street -> attributes and weight
    street_index,        \* StreetNetwork.street_index
    streets_by_index,    \* StreetNetwork.streets_by_index
    trips,               \* Simulation.trips: sequence of [origin, goals] in dict order
    jam_tolerance,       \* Simulation.jam_tolerance
    step_counter,        \* Simulation.step_counter
    traffic_load,        \* Simulation.traffic_load: [none, array]
    pc,                  \* position of the caller: "idle", "assign", "failed"
    error,               \* the exception that ended the run, "" if none
    origin_nr,           \* Simulation.step: origin_nr
    paths,               \* Simulation.step: paths of the origin processed last
    op,                  \* the operation called last
    arg,                 \* its street argument, <<>> if it has none
    params,              \* its other arguments, by name
    ret,                 \* its return value
    pre_streets,         \* streets as they were when the last road_construction / change_max_speed was called
    sorted_traffic_load, \* Simulation.road_construction: the streets in sorted order
    calls,               \* number of change_max_speed calls made from outside
    settings,            \* settings.py: the entries the driver loop reads
    step,                \* PyStreets.__init__: the loop variable step
    line,                \* position of the driver: "none", "loop", "step", "done", and in
                         \* visualize "visualize", "while", "complete"
    persist_writes,      \* the persist_write calls made so far: [filename, data]
    all_files,           \* Visualization.visualize: the names os.listdir returns
    traffic_load_files,  \* Visualization.visualize: traffic_load_files
    visualize_step,      \* Visualization.visualize: step
    renders              \* the steps whose image Visualization.visualize has saved

netVars == <<nodes, streets, street_index, streets_by_index>>
simVars == <<trips, jam_tolerance, step_counter, traffic_load>>
callVars == <<arg, params, ret, pre_streets, sorted_traffic_load, calls>>
driverVars == <<settings, step, line, persist_writes>>
visVars == <<all_files, traffic_load_files, visualize_step, renders>>
vars == <<nodes, streets, street_index, streets_by_index, trips, jam_tolerance,
          step_counter, traffic_load, pc, error, origin_nr, paths, op, arg, params, ret,
          pre_streets, sorted_traffic_load, calls, settings, step, line, persist_writes,
          all_files, traffic_load_files, visualize_step, renders>>

Max(a, b) == IF a >= b THEN a ELSE b
Min(a, b) == IF a <= b THEN a ELSE b

None == 0
EmptyMap == [x \in {} |-> 0]

(* ---------------- street_network.py ---------------- *)

\* StreetNetwork.__init__
EmptyNetwork == [streets |-> EmptyMap, street_index |-> 0, streets_by_index |-> EmptyMap]

\* driving time of a street of the given length at the given speed (1/10 km/h)
DrivingTime(length, speed) == (length * 10000) \div speed

\* a speed limit in km/h as a speed in 1/10 km/h
SpeedLimit(max_speed) == max_speed * 10

has_street(net, street) == street \in DOMAIN net.streets

\* an add_street that does not advance the index counter
add_street_keeps_counter(net, street, length, max_speed, number_of_lanes) ==
    [streets |->
        [s \in DOMAIN net.streets \cup {street} |->
            IF s = street
            THEN [index |-> net.street_index, length |-> length, max_speed |-> max_speed,
                  number_of_lanes |-> number_of_lanes,
                  driving_time |-> DrivingTime(length, SpeedLimit(max_speed))]
            ELSE net.streets[s]],
     street_index |-> net.street_index,
     streets_by_index |->
        [i \in DOMAIN net.streets_by_index \cup {net.street_index} |->
            IF i = net.street_index THEN street ELSE net.streets_by_index[i]]]

\* an add_street that stores max_speed and number_of_lanes in each other's place
add_street_swapped_attributes(net, street, length, max_speed, number_of_lanes) ==
    [streets |->
        [s \in DOMAIN net.streets \cup {street} |->
            IF s = street
            THEN [index |-> net.street_index, length |-> length, max_speed |-> number_of_lanes,
                  number_of_lanes |-> max_speed,
                  driving_time |-> DrivingTime(length, SpeedLimit(max_speed))]
            ELSE net.streets[s]],
     street_index |-> net.street_index + 1,
     streets_by_index |->
        [i \in DOMAIN net.streets_by_index \cup {net.street_index} |->
            IF i = net.street_index THEN street ELSE net.streets_by_index[i]]]

\* StreetNetwork.add_street (the street is not yet in the graph)
add_street(net, street, length, max_speed, number_of_lanes) ==
    [streets |->
        [s \in DOMAIN net.streets \cup {street} |->
            IF s = street
            THEN [index |-> net.street_index, length |-> length, max_speed |-> max_speed,
                  number_of_lanes |-> number_of_lanes,
                  driving_time |-> DrivingTime(length, SpeedLimit(max_speed))]
            ELSE net.streets[s]],
     street_index |-> net.street_index + 1,
     streets_by_index |->
        [i \in DOMAIN net.streets_by_index \cup {net.street_index} |->
            IF i = net.street_index THEN street ELSE net.streets_by_index[i]]]

\* StreetNetwork.get_street_by_index
get_street_by_index(by_index, i) == IF i \in DOMAIN by_index THEN by_index[i] ELSE <<>>

\* a change of max_speed that has no lower bound
change_max_speed_value_no_floor(current_max_speed, max_speed_delta) ==
    Min(140, current_max_speed + max_speed_delta)

\* a change of max_speed that has no upper bound
change_max_speed_value_no_ceiling(current_max_speed, max_speed_delta) ==
    Max(1, current_max_speed + max_speed_delta)

\* StreetNetwork.change_max_speed: the new max_speed and the value the call returns
\* (the method has no return statement, so it returns None)
change_max_speed_value(current_max_speed, max_speed_delta) ==
    Max(1, Min(140, current_max_speed + max_speed_delta))

change_max_speed_return(current_max_speed, max_speed_delta) == "None"

\* truth value of a return value, as tested by "if not ..."
Truthy(r) == r = "True"

(* ---------------- shortest_path, as called by calculate_shortest_paths ---------------- *)
(* calculate_shortest_paths returns the spanning tree of pygraph's shortest_path:    *)
(* Dijkstra's algorithm over a queue of (distance, node) entries kept sorted, from   *)
(* which finished nodes are filtered when they come up; a node is relaxed when it    *)
(* has no distance yet or the new distance is smaller.                               *)

\* smallest (distance, node) entry of the sorted queue
QueueHead(q) ==
    CHOOSE e \in q : \A f \in q : e[1] < f[1] \/ (e[1] = f[1] /\ e[2] <= f[2])

Neighbors(g, u) == {s[2] : s \in {t \in DOMAIN g : t[1] = u}}

\* a relaxation that keeps the predecessor found first
Improves_first_found(dist, v, alt) == v \notin DOMAIN dist

\* a relaxation that only lowers the distance of a node it has already seen
Improves_seen_only(dist, v, alt) == v \in DOMAIN dist /\ alt < dist[v]

\* relaxation test of an edge (u, v) with tentative distance alt
Improves(dist, v, alt) == v \notin DOMAIN dist \/ alt < dist[v]

RECURSIVE shortest_path_loop(_, _, _, _, _)
shortest_path_loop(g, q, finished, dist, previous) ==
    IF q = {} THEN previous
    ELSE LET e == QueueHead(q)
             du == e[1]
             u == e[2]
             rest == q \ {e}
         IN IF u \in finished THEN shortest_path_loop(g, rest, finished, dist, previous)
            ELSE LET fin == finished \cup {u}
                     upd == {v \in Neighbors(g, u) \ fin :
                                Improves(dist, v, du + g[<<u, v>>].driving_time)}
                     dist2 == [v \in DOMAIN dist \cup upd |->
                                 IF v \in upd THEN du + g[<<u, v>>].driving_time ELSE dist[v]]
                     prev2 == [v \in DOMAIN previous \cup upd |->
                                 IF v \in upd THEN u ELSE previous[v]]
                     q2 == rest \cup {<<dist2[v], v>> : v \in upd}
                 IN shortest_path_loop(g, q2, fin, dist2, prev2)

\* StreetNetwork.calculate_shortest_paths for an origin that is a node of the graph:
\* the spanning tree, in which the origin itself maps to None
calculate_shortest_paths(g, origin_node) ==
    shortest_path_loop(g, {<<0, origin_node>>}, {},
                       [n \in {origin_node} |-> 0], [n \in {origin_node} |-> None])

(* ---------------- simulation.py ---------------- *)

RECURSIVE SqrtSearch(_, _, _)
SqrtSearch(x, lo, hi) ==
    IF lo >= hi THEN lo
    ELSE LET mid == (lo + hi + 1) \div 2
         IN IF mid * mid <= x THEN SqrtSearch(x, mid, hi) ELSE SqrtSearch(x, lo, mid - 1)

\* floor of the square root
sqrt(x) == SqrtSearch(x, 0, 46340)

\* a calculate_driving_speed whose share of the street grows with the number of trips
calculate_driving_speed_inverted_share(street_length, max_speed, number_of_trips, number_of_lanes) ==
    LET available_space_for_each_car ==
            (street_length * Max(2 * number_of_trips, number_of_lanes) * 1000) \div number_of_lanes
        available_braking_distance ==
            Max(Min(available_space_for_each_car, 1000000) - car_length * 1000, min_breaking_distance)
        potential_speed ==
            sqrt((((braking_deceleration * 2 * 1296) \div 100) * available_braking_distance) \div 100)
    IN Min(SpeedLimit(max_speed), potential_speed)

\* calculate_driving_speed, result in 1/10 km/h; distances inside in millimetres
calculate_driving_speed(street_length, max_speed, number_of_trips, number_of_lanes) ==
    LET available_space_for_each_car ==
            (street_length * number_of_lanes * 1000) \div Max(2 * number_of_trips, number_of_lanes)
        available_braking_distance ==
            Max(available_space_for_each_car - car_length * 1000, min_breaking_distance)
        \* sqrt(braking_deceleration * distance * 2) m/s, times 3.6, in 1/10 km/h:
        \* sqrt(7.5 * 2 * 36 * 36 * mm / 1000) = sqrt(1944 * mm / 100)
        potential_speed ==
            sqrt((((braking_deceleration * 2 * 1296) \div 100) * available_braking_distance) \div 100)
    IN Min(SpeedLimit(max_speed), potential_speed)

\* a blend in which the tolerance weighs the actual speed
perceived_speed_inverted_tolerance(s, load, jt) ==
    LET ideal_speed == calculate_driving_speed(s.length, s.max_speed, 0, s.number_of_lanes)
        actual_speed == calculate_driving_speed(s.length, s.max_speed, load, s.number_of_lanes)
    IN ideal_speed + ((actual_speed - ideal_speed) * jt) \div 10

\* lines 35-39 of step
perceived_speed(s, load, jt) ==
    LET ideal_speed == calculate_driving_speed(s.length, s.max_speed, 0, s.number_of_lanes)
        actual_speed == calculate_driving_speed(s.length, s.max_speed, load, s.number_of_lanes)
    IN actual_speed + ((ideal_speed - actual_speed) * jt) \div 10

\* a re-weighting that takes the speed limit as the speed
reweight_at_max_speed(g, load, jt) ==
    [s \in DOMAIN g |->
        [g[s] EXCEPT !.driving_time = DrivingTime(g[s].length, SpeedLimit(g[s].max_speed))]]

\* a re-weighting that runs after the load array has been reset
reweight_from_reset_load(g, load, jt) ==
    [s \in DOMAIN g |->
        [g[s] EXCEPT !.driving_time = DrivingTime(g[s].length, perceived_speed(g[s], 0, jt))]]

\* lines 31-43 of step: every street is re-weighted from its load
reweight(g, load, jt) ==
    [s \in DOMAIN g |->
        [g[s] EXCEPT !.driving_time =
            DrivingTime(g[s].length, perceived_speed(g[s], load[g[s].index], jt))]]

\* line 46 of step and line 22 of __init__
zero_load(n) == [none |-> FALSE, array |-> [i \in 0 .. n - 1 |-> 0]]

\* the walked hop looked up under its own key
walked_street_as_walked(current, predecessor) == <<predecessor, current>>

\* line 61 of step: the key under which the walked hop is looked up
walked_street(current, predecessor) ==
    <<Min(current, predecessor), Max(current, predecessor)>>

\* a walk that stores the usage in the load entry instead of adding it
RECURSIVE hop_stores_usage(_, _, _, _, _)
hop_stores_usage(g, acc, p, origin, current) ==
    IF current = origin \/ ~acc.ok THEN acc
    ELSE LET street == walked_street(current, p[current])
         IN IF ~has_street([streets |-> g], street)
            THEN [load |-> acc.load, ok |-> FALSE]
            ELSE hop_stores_usage(g, [load |-> [acc.load EXCEPT ![g[street].index] = trip_volume],
                                      ok |-> TRUE],
                                  p, origin, p[current])

\* lines 60-65 of step: walk from current back to the origin
RECURSIVE hop(_, _, _, _, _)
hop(g, acc, p, origin, current) ==
    IF current = origin \/ ~acc.ok THEN acc
    ELSE LET street == walked_street(current, p[current])
         IN IF ~has_street([streets |-> g], street)
            THEN [load |-> acc.load, ok |-> FALSE]
            ELSE hop(g, [load |-> [acc.load EXCEPT ![g[street].index] = @ + trip_volume],
                         ok |-> TRUE],
                     p, origin, p[current])

\* an assignment in which a goal that is not in the predecessor map is an error
RECURSIVE assign_goals_unreachable_raises(_, _, _, _, _, _)
assign_goals_unreachable_raises(g, acc, p, origin, goals, k) ==
    IF k > Len(goals) \/ ~acc.ok THEN acc
    ELSE assign_goals_unreachable_raises(g,
                      IF goals[k] \in DOMAIN p THEN hop(g, acc, p, origin, goals[k])
                      ELSE [load |-> acc.load, ok |-> FALSE],
                      p, origin, goals, k + 1)

\* lines 55-65 of step: the goals of one origin, from goal number k on
RECURSIVE assign_goals(_, _, _, _, _, _)
assign_goals(g, acc, p, origin, goals, k) ==
    IF k > Len(goals) \/ ~acc.ok THEN acc
    ELSE assign_goals(g,
                      IF goals[k] \in DOMAIN p THEN hop(g, acc, p, origin, goals[k]) ELSE acc,
                      p, origin, goals, k + 1)

\* lines 51-65 of step for one entry t of the trips table: the load afterwards, whether
\* the code got through, the exception if not, and the predecessor map
assign_origin(g, N, load, t) ==
    IF t.origin \notin N
    THEN \* shortest_path looks up the neighbours of a node the graph does not have
         [load |-> load, ok |-> FALSE, error |-> "KeyError", paths |-> EmptyMap]
    ELSE LET p == calculate_shortest_paths(g, t.origin)
             r == assign_goals(g, [load |-> load, ok |-> TRUE], p, t.origin, t.goals, 1)
         IN [load |-> r.load, ok |-> r.ok,
             \* line 64: the street looked up is not in the graph
             error |-> IF r.ok THEN "" ELSE "LookupError",
             paths |-> p]

\* lines 46-65 of step for the first n entries of the trips table T
RECURSIVE assign_origins(_, _, _, _, _)
assign_origins(g, N, size, T, n) ==
    IF n = 0 THEN [load |-> zero_load(size).array, ok |-> TRUE]
    ELSE LET acc == assign_origins(g, N, size, T, n - 1)
         IN IF ~acc.ok THEN acc
            ELSE LET r == assign_origin(g, N, acc.load, T[n])
                 IN [load |-> r.load, ok |-> r.ok]

(* ---------------- initial states ---------------- *)

Pairs == {<<u, v>> \in NodeIds \X NodeIds : u # v}

\* the streets of S in ascending order
RECURSIVE SortedStreets(_)
SortedStreets(S) ==
    IF S = {} THEN <<>>
    ELSE LET m == CHOOSE s \in S : \A t \in S : s[1] < t[1] \/ (s[1] = t[1] /\ s[2] <= t[2])
         IN <<m>> \o SortedStreets(S \ {m})

\* the network after add_street was called for every street of order
RECURSIVE BuildNetwork(_, _, _, _)
BuildNetwork(order, len, speed, lanes) ==
    IF order = <<>> THEN EmptyNetwork
    ELSE LET s == order[Len(order)]
         IN add_street(BuildNetwork(SubSeq(order, 1, Len(order) - 1), len, speed, lanes),
                       s, len[s], speed[s], lanes[s])

\* a generate_trips that starts a new list of goals for every resident
RECURSIVE TripTable_new_list(_)
TripTable_new_list(draws) ==
    IF draws = <<>> THEN <<>>
    ELSE LET t == TripTable_new_list(SubSeq(draws, 1, Len(draws) - 1))
             d == draws[Len(draws)]
         IN IF \E k \in 1 .. Len(t) : t[k].origin = d[1]
            THEN [k \in 1 .. Len(t) |->
                    IF t[k].origin = d[1]
                    THEN [origin |-> d[1], goals |-> <<d[2]>>]
                    ELSE t[k]]
            ELSE Append(t, [origin |-> d[1], goals |-> <<d[2]>>])

\* generate_trips: the dict after the (origin, goal) pairs of draws were inserted
RECURSIVE TripTable(_)
TripTable(draws) ==
    IF draws = <<>> THEN <<>>
    ELSE LET t == TripTable(SubSeq(draws, 1, Len(draws) - 1))
             d == draws[Len(draws)]
         IN IF \E k \in 1 .. Len(t) : t[k].origin = d[1]
            THEN [k \in 1 .. Len(t) |->
                    IF t[k].origin = d[1]
                    THEN [origin |-> d[1], goals |-> Append(t[k].goals, d[2])]
                    ELSE t[k]]
            ELSE Append(t, [origin |-> d[1], goals |-> <<d[2]>>])

TripTables ==
    {TripTable(d) : d \in UNION {[1 .. k -> TripPairs] : k \in 0 .. MaxTrips}}

\* street lengths in metres: all short; long between nodes 1 and 3; short only between
\* nodes 1 and 2
LengthProfiles(S) ==
    {[s \in S |-> 10],
     [s \in S |-> IF s \in {<<1, 3>>, <<3, 1>>} THEN 100 ELSE 10],
     [s \in S |-> IF s \in {<<1, 2>>, <<2, 1>>} THEN 10 ELSE 100]}

InitNetwork(net) ==
    /\ streets = net.streets
    /\ street_index = net.street_index
    /\ streets_by_index = net.streets_by_index

\* Simulation.__init__
InitSimulation ==
    /\ step_counter = 0
    /\ traffic_load = zero_load(street_index)
    /\ pc = "idle"
    /\ error = ""
    /\ origin_nr = 0
    /\ paths = EmptyMap
    /\ op = "init"
    /\ arg = <<>>
    /\ params = EmptyMap
    /\ ret = "None"
    /\ pre_streets = streets
    /\ sorted_traffic_load = <<>>
    /\ calls = 0

\* settings.py, lines 9, 14 and 25
DefaultSettings ==
    [persist_traffic_load |-> FALSE, max_simulation_steps |-> 4,
     steps_between_street_construction |-> 10]

\* Visualization.visualize has not been called
NoVisualization ==
    /\ all_files = {}
    /\ traffic_load_files = {}
    /\ visualize_step = 0
    /\ renders = <<>>

\* the simulation is driven by calls from outside, not by the driver loop
NoDriver ==
    /\ settings = DefaultSettings
    /\ step = 0
    /\ line = "none"
    /\ persist_writes = <<>>
    /\ NoVisualization

Init ==
    /\ \E S \in SUBSET Pairs :
          /\ Cardinality(S) <= MaxStreets
          /\ \E len \in LengthProfiles(S) :
                InitNetwork(BuildNetwork(SortedStreets(S), len,
                                         [s \in S |-> 50], [s \in S |-> 1]))
    /\ nodes = NodeIds
    /\ trips \in TripTables
    /\ jam_tolerance \in JamTolerances
    /\ InitSimulation
    /\ NoDriver

(* ---------------- Simulation.step ---------------- *)

\* an exception that the caller catches and logs before it carries on
Raise_caught(e) == pc' = pc /\ error' = e

\* an exception leaves the call and, uncaught by the driver, ends the run
Raise(e) == pc' = "failed" /\ error' = e

\* lines 27-46: count the step, re-weight every street, reset the load
step_prepare ==
    /\ pc = "idle"
    /\ step_counter < MaxSteps
    /\ step_counter' = step_counter + 1
    /\ op' = "step"
    /\ origin_nr' = 0
    /\ paths' = EmptyMap
    /\ IF traffic_load.none /\ DOMAIN streets # {}
       THEN \* line 32: None is not subscriptable
            /\ Raise("TypeError")
            /\ UNCHANGED <<streets, traffic_load>>
       ELSE /\ streets' = reweight(streets, traffic_load.array, jam_tolerance)
            /\ traffic_load' = zero_load(street_index)
            /\ pc' = IF trips = <<>> THEN "idle" ELSE "assign"
            /\ error' = ""
    /\ UNCHANGED <<nodes, street_index, streets_by_index, trips, jam_tolerance>>
    /\ UNCHANGED callVars
    /\ UNCHANGED driverVars
    /\ UNCHANGED visVars

\* lines 49-65: the next origin of the trips table and all its goals
step_origin ==
    /\ pc = "assign"
    /\ origin_nr < Len(trips)
    /\ origin_nr' = origin_nr + 1
    /\ LET r == assign_origin(streets, nodes, traffic_load.array, trips[origin_nr + 1])
       IN /\ traffic_load' = [none |-> FALSE, array |-> r.load]
          /\ paths' = IF r.error = "KeyError" THEN paths ELSE r.paths
          /\ IF r.ok
             THEN /\ pc' = IF origin_nr + 1 = Len(trips) THEN "idle" ELSE "assign"
                  /\ error' = ""
             ELSE Raise(r.error)
    /\ UNCHANGED netVars
    /\ UNCHANGED <<trips, jam_tolerance, step_counter, op>>
    /\ UNCHANGED callVars
    /\ UNCHANGED driverVars
    /\ UNCHANGED visVars

(* ---------------- Simulation.road_construction ---------------- *)

\* line 74: the orders sorted() can return for the load array a: ascending by load,
\* streets of equal load in the order the dict yields them
RECURSIVE SortedOrders(_, _)
SortedOrders(a, I) ==
    IF I = {} THEN {<<>>}
    ELSE LET lowest == {i \in I : \A k \in I : a[i] <= a[k]}
         IN UNION {{<<i>> \o rest : rest \in SortedOrders(a, I \ {i})} : i \in lowest}

\* one call of change_max_speed on the graph g
set_max_speed(g, street, max_speed_delta) ==
    [g EXCEPT ![street].max_speed = change_max_speed_value(@, max_speed_delta)]

\* lines 77-86: the loop from iteration i on; the two window indices are kept times 100
RECURSIVE construction_loop(_, _, _, _, _)
construction_loop(g, order, i, max_decrease_index, min_increase_index) ==
    IF i >= Len(order) THEN g
    ELSE LET low == order[i + 1]
             decrease == 100 * i <= max_decrease_index
             g1 == IF decrease THEN set_max_speed(g, low, -20) ELSE g
             md == IF decrease /\ ~Truthy(change_max_speed_return(g[low].max_speed, -20))
                   THEN max_decrease_index + 100 ELSE max_decrease_index
             j == Len(order) - i - 1
             high == order[j + 1]
             increase == 100 * j >= min_increase_index
             g2 == IF increase THEN set_max_speed(g1, high, 20) ELSE g1
             mi == IF increase /\ ~Truthy(change_max_speed_return(g1[high].max_speed, 20))
                   THEN min_increase_index - 100 ELSE min_increase_index
         IN IF md >= mi THEN g2 ELSE construction_loop(g2, order, i + 1, md, mi)

road_construction ==
    /\ pc = "idle"
    /\ op' = "road_construction"
    /\ arg' = <<>>
    /\ ret' = "None"
    /\ pre_streets' = streets
    /\ IF traffic_load.none
       THEN \* line 70: None has no len()
            /\ Raise("TypeError")
            /\ UNCHANGED <<streets, traffic_load, sorted_traffic_load>>
       ELSE \E order \in SortedOrders(traffic_load.array, DOMAIN traffic_load.array) :
               LET by_load == [k \in 1 .. Len(order) |->
                                  get_street_by_index(streets_by_index, order[k])]
               IN /\ sorted_traffic_load' = by_load
                  /\ streets' = construction_loop(streets, by_load, 0,
                                                  15 * Len(by_load), 95 * Len(by_load))
                  /\ traffic_load' = [none |-> TRUE, array |-> EmptyMap]
                  /\ UNCHANGED <<pc, error>>
    /\ UNCHANGED <<nodes, street_index, streets_by_index, trips, jam_tolerance, step_counter>>
    /\ UNCHANGED <<origin_nr, paths, calls, params>>
    /\ UNCHANGED driverVars
    /\ UNCHANGED visVars

\* line 74 on an interpreter whose dict has no iteritems: the call ends there
road_construction_iteritems ==
    /\ pc = "idle"
    /\ ~traffic_load.none
    /\ op' = "road_construction"
    /\ arg' = <<>>
    /\ ret' = "None"
    /\ pre_streets' = streets
    /\ Raise("AttributeError")
    /\ UNCHANGED netVars
    /\ UNCHANGED simVars
    /\ UNCHANGED <<origin_nr, paths, sorted_traffic_load, calls, params>>
    /\ UNCHANGED driverVars
    /\ UNCHANGED visVars

(* ---------------- StreetNetwork.change_max_speed, called from outside ---------------- *)

MaxSpeedDeltas == {-20, 20, -200, 200, 0}

change_max_speed ==
    /\ pc = "idle"
    /\ calls < MaxCalls
    /\ calls' = calls + 1
    /\ \E street \in DOMAIN streets, max_speed_delta \in MaxSpeedDeltas :
          /\ op' = "change_max_speed"
          /\ arg' = street
          /\ pre_streets' = streets
          /\ streets' = set_max_speed(streets, street, max_speed_delta)
          /\ params' = [max_speed_delta |-> max_speed_delta]
          /\ ret' = change_max_speed_return(streets[street].max_speed, max_speed_delta)
    /\ UNCHANGED <<nodes, street_index, streets_by_index>>
    /\ UNCHANGED simVars
    /\ UNCHANGED <<pc, error, origin_nr, paths, sorted_traffic_load>>
    /\ UNCHANGED driverVars
    /\ UNCHANGED visVars

(* ---------------- StreetNetwork.calculate_shortest_paths, called from outside ---------------- *)

set_driving_time(g, street, driving_time) == [g EXCEPT ![street].driving_time = driving_time]

calculate ==
    /\ pc = "idle"
    /\ \E origin_node \in nodes :
          /\ paths' = calculate_shortest_paths(streets, origin_node)
          /\ arg' = <<origin_node>>
    /\ op' = "calculate_shortest_paths"
    /\ UNCHANGED netVars
    /\ UNCHANGED simVars
    /\ UNCHANGED <<pc, error, origin_nr, params, ret, pre_streets, sorted_traffic_load, calls>>
    /\ UNCHANGED driverVars
    /\ UNCHANGED visVars

(* ---------------- specifications ---------------- *)

\* the simulation under any order of step and road_construction calls
Next == step_prepare \/ step_origin \/ road_construction \/ road_construction_iteritems

Spec == Init /\ [][Next]_vars

\* the simulation under step calls only
NextStep == step_prepare \/ step_origin

SpecStep == Init /\ [][NextStep]_vars

\* the network of the self-test of simulation.py (lines 110-115), max_speed varied
InitSpeed ==
    /\ \E speed \in [{<<1, 2>>, <<2, 3>>} -> {1, 50, 140}] :
          InitNetwork(BuildNetwork(<<<<1, 2>>, <<2, 3>>>>,
                                   [s \in {<<1, 2>>, <<2, 3>>} |-> IF s = <<1, 2>> THEN 10 ELSE 100],
                                   speed,
                                   [s \in {<<1, 2>>, <<2, 3>>} |-> 2]))
    /\ nodes = NodeIds
    /\ trips = TripTable(<<<<1, 3>>>>)
    /\ jam_tolerance = 6
    /\ InitSimulation
    /\ NoDriver

NextSpeed == change_max_speed

SpecSpeed == InitSpeed /\ [][NextSpeed]_vars

\* shortest paths on graphs of up to MaxPathStreets streets with any positive weights
PathNodeIds == {1, 2, 3, 4}
PathPairs == {<<u, v>> \in PathNodeIds \X PathNodeIds : u # v}
Weights == {1, 3}

RECURSIVE WithWeights(_, _, _)
WithWeights(g, w, S) ==
    IF S = {} THEN g
    ELSE LET s == CHOOSE t \in S : TRUE
         IN WithWeights(set_driving_time(g, s, w[s]), w, S \ {s})

InitPath ==
    /\ \E S \in SUBSET PathPairs :
          /\ Cardinality(S) <= MaxPathStreets
          /\ \E w \in [S -> Weights] :
                LET net == BuildNetwork(SortedStreets(S), [s \in S |-> 100],
                                        [s \in S |-> 50], [s \in S |-> 1])
                IN InitNetwork([net EXCEPT !.streets = WithWeights(@, w, S)])
    /\ nodes = PathNodeIds
    /\ trips = <<>>
    /\ jam_tolerance = 0
    /\ InitSimulation
    /\ NoDriver

NextPath == calculate

SpecPath == InitPath /\ [][NextPath]_vars

\* road_construction on graphs of up to MaxRCStreets streets
RCNodeIds == {1, 2, 3, 4, 5, 6}
RCStreet(k) ==
    LET u == (k \div 5) + 1
        w == (k % 5) + 1
    IN <<u, IF w >= u THEN w + 1 ELSE w>>
RCStreets(n) == {RCStreet(k) : k \in 0 .. n - 1}
RCSpeeds == {1, 15, 50, 130, 140}
\* load arrays: ascending or descending in the street index, with or without two equal entries
RCLoads(n) ==
    {[i \in 0 .. n - 1 |-> i], [i \in 0 .. n - 1 |-> n - 1 - i],
     [i \in 0 .. n - 1 |-> IF i = 1 THEN 0 ELSE i],
     [i \in 0 .. n - 1 |-> IF i = n - 2 THEN n - 1 ELSE i]}

InitRC ==
    /\ \E n \in 0 .. MaxRCStreets :
          /\ \E speed \in {[s \in RCStreets(n) |-> v] : v \in RCSpeeds}
                          \cup {[s \in RCStreets(n) |-> IF s[1] < s[2] THEN 1 ELSE 140]} :
                InitNetwork(BuildNetwork([k \in 1 .. n |-> RCStreet(k - 1)],
                                         [s \in RCStreets(n) |-> 100], speed,
                                         [s \in RCStreets(n) |-> 1]))
          /\ \E a \in RCLoads(n) : traffic_load = [none |-> FALSE, array |-> a]
    /\ nodes = RCNodeIds
    /\ trips = <<>>
    /\ jam_tolerance = 0
    /\ step_counter = 1
    /\ pc = "idle"
    /\ error = ""
    /\ origin_nr = 0
    /\ paths = EmptyMap
    /\ op = "step"
    /\ arg = <<>>
    /\ params = EmptyMap
    /\ ret = "None"
    /\ pre_streets = streets
    /\ sorted_traffic_load = <<>>
    /\ calls = 0
    /\ NoDriver

NextRC == road_construction \/ road_construction_iteritems

SpecRC == InitRC /\ [][NextRC]_vars

(* ---------------- building the network, then simulating on it ---------------- *)
(* add_street is called from outside while pc is "build"; an exception it raises goes  *)
(* to its caller, who may go on: error names it and the network stays as it is.        *)

\* StreetNetwork.get_street_attributes
get_street_attributes(g, street) ==
    <<street, g[street].index, g[street].length, g[street].max_speed, g[street].number_of_lanes>>

\* StreetNetwork.get_street_index
get_street_index(g, street) == get_street_attributes(g, street)[2]

\* StreetNetwork.get_driving_time
get_driving_time(g, street) == g[street].driving_time

\* an add_edge that takes an edge the graph already has
add_edge_accepts_duplicate(N, net, street) == street[1] \notin N \/ street[2] \notin N

\* line 37: digraph.add_edge raises AdditionError for an edge between nodes the graph
\* does not have and for an edge it already has, before it changes the graph
add_edge_raises(N, net, street) ==
    street[1] \notin N \/ street[2] \notin N \/ has_street(net, street)

Network == [streets |-> streets, street_index |-> street_index,
            streets_by_index |-> streets_by_index]

SetNetwork(net) ==
    /\ streets' = net.streets
    /\ street_index' = net.street_index
    /\ streets_by_index' = net.streets_by_index

\* the streets add_street is called with; 4 is not a node of the graph
BuildPairs == {<<1, 2>>, <<2, 1>>, <<2, 3>>, <<1, 4>>}
\* (length, number_of_lanes) of a street: between coincident nodes, short, short and wide
BuildAttributes == {<<0, 1>>, <<10, 1>>, <<10, 2>>}
BuildTrips == {TripTable(<<>>), TripTable(<<<<1, 3>>>>), TripTable(<<<<1, 3>>, <<1, 3>>>>)}
BuildJamTolerances == {0, 5, 10}

\* StreetNetwork.add_street, called from outside
call_add_street ==
    /\ pc = "build"
    /\ \E street \in BuildPairs, a \in BuildAttributes :
          /\ op' = "add_street"
          /\ arg' = street
          /\ params' = [length |-> a[1], max_speed |-> 50, number_of_lanes |-> a[2]]
          /\ IF add_edge_raises(nodes, Network, street)
             THEN /\ error' = "AdditionError"
                  /\ UNCHANGED <<streets, street_index, streets_by_index>>
             ELSE /\ error' = ""
                  /\ SetNetwork(add_street(Network, street, a[1], 50, a[2]))
    /\ pre_streets' = streets
    /\ UNCHANGED <<nodes, pc, origin_nr, paths, ret, sorted_traffic_load, calls>>
    /\ UNCHANGED simVars
    /\ UNCHANGED driverVars
    /\ UNCHANGED visVars

\* osm_data.py, lines 117-120: the test compares two literals
oneway == "oneway" = "Yes"

\* lines 155-167: the streets of one segment of a way, each added only if absent;
\* number_of_lanes / 2 lanes per direction are number_of_lanes half lanes
add_segment(net, u, v, length, max_speed, number_of_lanes) ==
    IF oneway
    THEN IF has_street(net, <<u, v>>) THEN net
         ELSE add_street(net, <<u, v>>, length, max_speed, 2 * number_of_lanes)
    ELSE LET forward == IF has_street(net, <<u, v>>) THEN net
                        ELSE add_street(net, <<u, v>>, length, max_speed, number_of_lanes)
         IN IF has_street(forward, <<v, u>>) THEN forward
            ELSE add_street(forward, <<v, u>>, length, max_speed, number_of_lanes)

\* GraphBuilder.build_street_network, lines 112-167, for one segment of a way
build_street_network ==
    /\ pc = "build"
    /\ \E a \in BuildAttributes :
          /\ op' = "build_street_network"
          /\ arg' = <<1, 2>>
          /\ params' = [length |-> a[1], max_speed |-> 50, number_of_lanes |-> a[2]]
          /\ SetNetwork(add_segment(Network, 1, 2, a[1], 50, a[2]))
    /\ error' = ""
    /\ pre_streets' = streets
    /\ UNCHANGED <<nodes, pc, origin_nr, paths, ret, sorted_traffic_load, calls>>
    /\ UNCHANGED simVars
    /\ UNCHANGED driverVars
    /\ UNCHANGED visVars

\* Simulation.__init__ on the network built so far
Simulation_init ==
    /\ pc = "build"
    /\ pc' = "idle"
    /\ trips' \in BuildTrips
    /\ jam_tolerance' \in BuildJamTolerances
    /\ step_counter' = 0
    /\ traffic_load' = zero_load(street_index)
    /\ error' = ""
    /\ op' = "init"
    /\ arg' = <<>>
    /\ params' = EmptyMap
    /\ pre_streets' = streets
    /\ UNCHANGED netVars
    /\ UNCHANGED <<origin_nr, paths, ret, sorted_traffic_load, calls>>
    /\ UNCHANGED driverVars
    /\ UNCHANGED visVars

InitBuild ==
    /\ InitNetwork(EmptyNetwork)
    /\ nodes = NodeIds
    /\ trips = <<>>
    /\ jam_tolerance = 0
    /\ step_counter = 0
    /\ traffic_load = [none |-> TRUE, array |-> EmptyMap]
    /\ pc = "build"
    /\ error = ""
    /\ origin_nr = 0
    /\ paths = EmptyMap
    /\ op = "init"
    /\ arg = <<>>
    /\ params = EmptyMap
    /\ ret = "None"
    /\ pre_streets = streets
    /\ sorted_traffic_load = <<>>
    /\ calls = 0
    /\ NoDriver

NextBuild ==
    call_add_street \/ build_street_network \/ Simulation_init \/ step_prepare \/ step_origin

SpecBuild == InitBuild /\ [][NextBuild]_vars

(* ---------------- calculate_driving_speed, called from outside ---------------- *)

SpeedLengths == {0, 4, 10, 100, 1000}
SpeedLimits == {1, 50, 140}
SpeedLanes == {1, 2, 3, 4}

InitDrivingSpeed ==
    /\ InitNetwork(EmptyNetwork)
    /\ nodes = {}
    /\ trips = <<>>
    /\ jam_tolerance = 0
    /\ step_counter = 0
    /\ traffic_load = zero_load(0)
    /\ pc = "idle"
    /\ error = ""
    /\ origin_nr = 0
    /\ paths = EmptyMap
    /\ op = "init"
    /\ arg = <<>>
    /\ params \in [street_length : SpeedLengths, max_speed : SpeedLimits,
                   number_of_trips : {0}, number_of_lanes : SpeedLanes]
    /\ ret = "None"
    /\ pre_streets = streets
    /\ sorted_traffic_load = <<>>
    /\ calls = 0
    /\ NoDriver

\* calculate_driving_speed for the street of params and any number of trips
call_calculate_driving_speed ==
    /\ \E number_of_trips \in 0 .. MaxLoad :
          /\ params' = [params EXCEPT !.number_of_trips = number_of_trips]
          /\ ret' = calculate_driving_speed(params.street_length, params.max_speed,
                                            number_of_trips, params.number_of_lanes)
    /\ op' = "calculate_driving_speed"
    /\ UNCHANGED netVars
    /\ UNCHANGED simVars
    /\ UNCHANGED <<pc, error, origin_nr, paths, arg, pre_streets, sorted_traffic_load, calls>>
    /\ UNCHANGED driverVars
    /\ UNCHANGED visVars

NextDrivingSpeed == call_calculate_driving_speed

SpecDrivingSpeed == InitDrivingSpeed /\ [][NextDrivingSpeed]_vars

(* ---------------- generate_trips (trip_generator.py, tripgenerator.py) ---------------- *)

Populations == {{}, {1}, {1, 2}, {2, 3}}

InitTrips ==
    /\ InitNetwork(EmptyNetwork)
    /\ nodes = NodeIds
    /\ trips = <<>>
    /\ jam_tolerance = 0
    /\ step_counter = 0
    /\ traffic_load = zero_load(0)
    /\ pc = "idle"
    /\ error = ""
    /\ origin_nr = 0
    /\ paths = EmptyMap
    /\ op = "init"
    /\ arg = <<>>
    /\ params \in [number_of_residents : 0 .. MaxResidents, potential_origins : Populations,
                   potential_goals : Populations]
    /\ ret = "None"
    /\ pre_streets = streets
    /\ sorted_traffic_load = <<>>
    /\ calls = 0
    /\ NoDriver

\* generate_trips: one sample of an origin and of a goal per resident; sample raises
\* ValueError on an empty population, and the call ends there
generate_trips ==
    /\ pc = "idle"
    /\ op' = "generate_trips"
    /\ IF params.number_of_residents > 0
          /\ (params.potential_origins = {} \/ params.potential_goals = {})
       THEN /\ error' = "ValueError"
            /\ UNCHANGED <<trips, ret>>
       ELSE \E draws \in [1 .. params.number_of_residents ->
                             params.potential_origins \X params.potential_goals] :
               /\ trips' = TripTable(draws)
               \* number_of_goals, counted once per resident and asserted at the end
               /\ ret' = Len(draws)
               /\ error' = IF Len(draws) = params.number_of_residents THEN ""
                           ELSE "AssertionError"
    /\ UNCHANGED netVars
    /\ UNCHANGED <<jam_tolerance, step_counter, traffic_load>>
    /\ UNCHANGED <<pc, origin_nr, paths, arg, params, pre_streets, sorted_traffic_load, calls>>
    /\ UNCHANGED driverVars
    /\ UNCHANGED visVars

NextTrips == generate_trips

SpecTrips == InitTrips /\ [][NextTrips]_vars

(* ---------------- the driver loop (streets.py, lines 59-70) ---------------- *)
(* The same loop is lines 110-121 of pystreets.py.  In this specification step and    *)
(* road_construction are whole calls; origin_nr and paths, locals of step, are not    *)
(* followed.                                                                           *)

\* the exception that ends lines 49-65 of step for the first n entries of T, "" if none
RECURSIVE step_error(_, _, _, _, _)
step_error(g, N, size, T, n) ==
    IF n = 0 THEN ""
    ELSE LET e == step_error(g, N, size, T, n - 1)
         IN IF e # "" THEN e
            ELSE assign_origin(g, N, assign_origins(g, N, size, T, n - 1).load, T[n]).error

\* Simulation.step as one call: the streets and the load it leaves, and its exception
Simulation_step(g, N, size, load, T, jt) ==
    IF load.none /\ DOMAIN g # {}
    THEN [streets |-> g, traffic_load |-> load, error |-> "TypeError"]
    ELSE LET weighted == reweight(g, load.array, jt)
         IN [streets |-> weighted,
             traffic_load |-> [none |-> FALSE,
                               array |-> assign_origins(weighted, N, size, T, Len(T)).load],
             error |-> step_error(weighted, N, size, T, Len(T))]

\* persistence.persist_write, as a record of the call
persist_write(filename, data) == [filename |-> filename, data |-> data]

\* line 61
construction_due ==
    step > 0 /\ step % settings.steps_between_street_construction = 0

\* lines 61-65: road construction takes place, and the network is saved if the setting
\* persist_traffic_load is on
run_road_construction ==
    /\ pc = "idle"
    /\ line = "loop"
    /\ step < settings.max_simulation_steps
    /\ construction_due
    /\ op' = "road_construction"
    /\ pre_streets' = streets
    /\ IF traffic_load.none
       THEN /\ Raise("TypeError")
            /\ UNCHANGED <<streets, traffic_load, sorted_traffic_load, line, persist_writes>>
       ELSE \E order \in SortedOrders(traffic_load.array, DOMAIN traffic_load.array) :
               LET by_load == [k \in 1 .. Len(order) |->
                                  get_street_by_index(streets_by_index, order[k])]
               IN /\ sorted_traffic_load' = by_load
                  /\ streets' = construction_loop(streets, by_load, 0,
                                                  15 * Len(by_load), 95 * Len(by_load))
                  /\ traffic_load' = [none |-> TRUE, array |-> EmptyMap]
                  /\ persist_writes' =
                        IF settings.persist_traffic_load
                        THEN Append(persist_writes,
                                    persist_write(<<"street_network", step + 1>>, streets'))
                        ELSE persist_writes
                  /\ line' = "step"
                  /\ UNCHANGED <<pc, error>>
    /\ UNCHANGED <<nodes, street_index, streets_by_index, trips, jam_tolerance, step_counter>>
    /\ UNCHANGED <<origin_nr, paths, arg, params, ret, calls, settings, step>>
    /\ UNCHANGED visVars

\* line 63 on an interpreter whose dict has no iteritems
run_road_construction_iteritems ==
    /\ pc = "idle"
    /\ line = "loop"
    /\ step < settings.max_simulation_steps
    /\ construction_due
    /\ ~traffic_load.none
    /\ op' = "road_construction"
    /\ pre_streets' = streets
    /\ Raise("AttributeError")
    /\ UNCHANGED netVars
    /\ UNCHANGED simVars
    /\ UNCHANGED <<origin_nr, paths, arg, params, ret, sorted_traffic_load, calls>>
    /\ UNCHANGED driverVars
    /\ UNCHANGED visVars

\* lines 67-70: the step, then its load is saved under the number of the step
run_step ==
    /\ pc = "idle"
    /\ \/ line = "step"
       \/ line = "loop" /\ step < settings.max_simulation_steps /\ ~construction_due
    /\ op' = "step"
    /\ step_counter' = step_counter + 1
    /\ LET r == Simulation_step(streets, nodes, street_index, traffic_load, trips, jam_tolerance)
       IN /\ streets' = r.streets
          /\ traffic_load' = r.traffic_load
          /\ IF r.error = ""
             THEN /\ persist_writes' =
                        Append(persist_writes,
                               persist_write(<<"traffic_load", step + 1>>, r.traffic_load.array))
                  /\ step' = step + 1
                  /\ line' = "loop"
                  /\ UNCHANGED <<pc, error>>
             ELSE /\ Raise(r.error)
                  /\ UNCHANGED <<step, line, persist_writes>>
    /\ UNCHANGED <<nodes, street_index, streets_by_index, trips, jam_tolerance>>
    /\ UNCHANGED <<origin_nr, paths, settings>>
    /\ UNCHANGED callVars
    /\ UNCHANGED visVars

\* line 59: the range is exhausted
run_done ==
    /\ pc = "idle"
    /\ line = "loop"
    /\ step = settings.max_simulation_steps
    /\ line' = "done"
    /\ UNCHANGED netVars
    /\ UNCHANGED simVars
    /\ UNCHANGED <<pc, error, origin_nr, paths, op>>
    /\ UNCHANGED callVars
    /\ UNCHANGED <<settings, step, persist_writes>>
    /\ UNCHANGED visVars

\* the networks the driver is run on: none, the chain of the self-test, a ring
DriverStreets == {{}, {<<1, 2>>, <<2, 3>>}, {<<1, 2>>, <<2, 3>>, <<3, 1>>}}
DriverTrips == BuildTrips \cup {TripTable(<<<<3, 1>>>>)}

InitDriver ==
    /\ \E S \in DriverStreets :
          InitNetwork(BuildNetwork(SortedStreets(S), [s \in S |-> 10],
                                   [s \in S |-> 50], [s \in S |-> 1]))
    /\ nodes = NodeIds
    /\ trips \in DriverTrips
    /\ jam_tolerance \in JamTolerances
    /\ InitSimulation
    /\ settings \in [persist_traffic_load : BOOLEAN,
                     max_simulation_steps : 1 .. MaxSimulationSteps,
                     steps_between_street_construction : {1, 2, 10}]
    /\ step = 0
    /\ line = "loop"
    /\ persist_writes = <<>>
    /\ NoVisualization

NextDriver ==
    run_road_construction \/ run_road_construction_iteritems \/ run_step \/ run_done

SpecDriver == InitDriver /\ [][NextDriver]_vars

(* ---------------- steps on a network built by GraphBuilder ---------------- *)

\* the segments of the ways, in the direction the way lists their nodes
OsmSegments == {<<1, 2>>, <<2, 3>>, <<3, 1>>}

\* the orders in which the ways can list the segments of S
RECURSIVE SegmentOrders(_)
SegmentOrders(S) ==
    IF S = {} THEN {<<>>}
    ELSE UNION {{<<s>> \o rest : rest \in SegmentOrders(S \ {s})} : s \in S}

\* osm_data.py, lines 106-167: the network after the segments of order were added
RECURSIVE BuildSegments(_, _)
BuildSegments(order, len) ==
    IF order = <<>> THEN EmptyNetwork
    ELSE LET s == order[Len(order)]
         IN add_segment(BuildSegments(SubSeq(order, 1, Len(order) - 1), len),
                        s[1], s[2], len[s], 50, 1)

InitGraphBuilder ==
    /\ \E S \in SUBSET OsmSegments :
          \E order \in SegmentOrders(S), len \in LengthProfiles(S) :
              InitNetwork(BuildSegments(order, len))
    /\ nodes = NodeIds
    /\ trips \in TripTables
    /\ jam_tolerance \in JamTolerances
    /\ InitSimulation
    /\ NoDriver

NextGraphBuilder == step_prepare \/ step_origin

SpecGraphBuilder == InitGraphBuilder /\ [][NextGraphBuilder]_vars

(* ---------------- Visualization.visualize (visualization.py, lines 121-161) ---------------- *)
(* A file name is a record: the text before the digits, the digits, and the text after *)
(* them.                                                                               *)

\* a str(n) that pads the number to two digits
str_zero_padded(n) == <<n \div 10, n % 10>>

\* the decimal digits that formatting the integer n >= 0 yields (line 140)
RECURSIVE str(_)
str(n) == IF n < 10 THEN <<n>> ELSE str(n \div 10) \o <<n % 10>>

\* line 140
traffic_load_filename(n) == [stem |-> "traffic_load_", digits |-> str(n), ext |-> ".pystreets"]

\* line 48: ^traffic_load_[0-9]+.pystreets$, in which the dot stands for any character
traffic_load_filename_expression(name) ==
    /\ name.stem = "traffic_load_"
    /\ Len(name.digits) >= 1
    /\ name.ext \in {".pystreets", "xpystreets"}

\* line 126
street_network_filename == [stem |-> "street_network", digits |-> <<>>, ext |-> ".pystreets"]

\* persist_read called with the directory of the run: the file is there to be read
persist_read(files, filename) == filename \in files

\* pystreets.py, lines 67 and 121: the files a run of n completed steps has written
DriverFiles(n) == {street_network_filename} \cup {traffic_load_filename(k) : k \in 1 .. n}

\* other files the directory may hold
StrayFiles ==
    {[stem |-> "traffic_load_", digits |-> <<0>>, ext |-> ".pystreets"],
     [stem |-> "traffic_load_", digits |-> <<0, 1>>, ext |-> ".pystreets"],
     [stem |-> "traffic_load_", digits |-> <<5>>, ext |-> ".pystreets"],
     [stem |-> "traffic_load_", digits |-> <<1, 0>>, ext |-> ".pystreets"],
     [stem |-> "traffic_load_", digits |-> <<2>>, ext |-> "xpystreets"],
     [stem |-> "traffic_load_", digits |-> <<>>, ext |-> ".pystreets"],
     [stem |-> "traffic_load_", digits |-> <<1>>, ext |-> ".pystreets.bak"],
     [stem |-> "data", digits |-> <<>>, ext |-> ".pystreets"]}

InitVisualize ==
    /\ InitNetwork(EmptyNetwork)
    /\ nodes = NodeIds
    /\ trips = <<>>
    /\ jam_tolerance = 0
    /\ InitSimulation
    /\ settings = DefaultSettings
    /\ step = 0
    /\ line = "visualize"
    /\ persist_writes = <<>>
    /\ \E n \in 0 .. MaxSimulationSteps, stray \in SUBSET StrayFiles :
          /\ Cardinality(stray) <= MaxStrayFiles
          /\ all_files = DriverFiles(n) \cup stray
    /\ traffic_load_files = {}
    /\ visualize_step = 0
    /\ renders = <<>>

\* lines 122-134: list the directory, keep the names the expression finds, read the
\* network and every load file, start counting
visualize_find_files ==
    /\ line = "visualize"
    /\ persist_read(all_files, street_network_filename)
    /\ traffic_load_files' = {name \in all_files : traffic_load_filename_expression(name)}
    /\ \A name \in traffic_load_files' : persist_read(all_files, name)
    /\ visualize_step' = 0
    /\ line' = "while"
    /\ op' = "visualize"
    /\ UNCHANGED netVars
    /\ UNCHANGED simVars
    /\ UNCHANGED <<pc, error, origin_nr, paths>>
    /\ UNCHANGED callVars
    /\ UNCHANGED <<settings, step, persist_writes, all_files, renders>>

\* lines 136-158: one pass of the while loop
visualize_draw ==
    /\ line = "while"
    /\ traffic_load_files # {}
    /\ visualize_step < MaxVisualizeSteps
    /\ visualize_step' = visualize_step + 1
    /\ IF traffic_load_filename(visualize_step') \in traffic_load_files
       THEN /\ persist_read(all_files, traffic_load_filename(visualize_step'))
            /\ renders' = Append(renders, visualize_step')
            /\ traffic_load_files' = traffic_load_files \ {traffic_load_filename(visualize_step')}
       ELSE UNCHANGED <<renders, traffic_load_files>>
    /\ UNCHANGED netVars
    /\ UNCHANGED simVars
    /\ UNCHANGED <<pc, error, origin_nr, paths, op>>
    /\ UNCHANGED callVars
    /\ UNCHANGED <<settings, step, line, persist_writes, all_files>>

\* lines 137 and 160: the list is empty, the loop ends
visualize_done ==
    /\ line = "while"
    /\ traffic_load_files = {}
    /\ line' = "complete"
    /\ UNCHANGED netVars
    /\ UNCHANGED simVars
    /\ UNCHANGED <<pc, error, origin_nr, paths, op>>
    /\ UNCHANGED callVars
    /\ UNCHANGED <<settings, step, persist_writes>>
    /\ UNCHANGED visVars

NextVisualize == visualize_find_files \/ visualize_draw \/ visualize_done

\* visualize runs in one thread, which takes its next step whenever it has one
SpecVisualize == InitVisualize /\ [][NextVisualize]_vars /\ WF_vars(NextVisualize)

(* ======================= properties ======================= *)

KnownOrigin(k) == trips[k].origin \in nodes

\* the predecessor map the step computes for origin number k
PathsOf(k) == calculate_shortest_paths(streets, trips[k].origin)

\* the directed edges (predecessor, node) on the walk from current back to origin
RECURSIVE WalkedEdges(_, _, _)
WalkedEdges(p, origin, current) ==
    IF current = origin THEN {}
    ELSE {<<p[current], current>>} \cup WalkedEdges(p, origin, p[current])

\* the trips (origin number, goal number) of the first n origins whose goal is in the map
ReachableTrips(n) ==
    {t \in UNION {{<<k, m>> : m \in 1 .. Len(trips[k].goals)} : k \in 1 .. n} :
        KnownOrigin(t[1]) /\ trips[t[1]].goals[t[2]] \in DOMAIN PathsOf(t[1])}

EdgesOfTrip(t) == WalkedEdges(PathsOf(t[1]), trips[t[1]].origin, trips[t[1]].goals[t[2]])

RECURSIVE SumOver(_, _)
SumOver(f, D) ==
    IF D = {} THEN 0 ELSE LET d == CHOOSE x \in D : TRUE IN f[d] + SumOver(f, D \ {d})

TotalLoad == SumOver(traffic_load.array, DOMAIN traffic_load.array)

\* C1: after the origins processed so far, the load entry of every street is trip_volume
\* times the number of trips whose walk traverses that directed street
C1_OwnLoadEntry ==
    (op = "step" /\ pc # "failed") =>
        \A s \in DOMAIN streets :
            traffic_load.array[streets[s].index] =
                trip_volume * Cardinality({t \in ReachableTrips(origin_nr) : s \in EdgesOfTrip(t)})

\* C2: the total load is trip_volume times the hop counts of all reachable trips of the
\* origins the step has gone through
C2_Conservation ==
    (op = "step" /\ error # "TypeError") =>
        TotalLoad =
            trip_volume * SumOver([t \in ReachableTrips(origin_nr) |-> Cardinality(EdgesOfTrip(t))],
                                  ReachableTrips(origin_nr))

\* the total weights of all simple directed paths from u to v that avoid visited
RECURSIVE PathCosts(_, _, _, _)
PathCosts(g, u, v, visited) ==
    IF u = v THEN {0}
    ELSE UNION {{g[<<u, w>>].driving_time + c : c \in PathCosts(g, w, v, visited \cup {u})} :
                    w \in Neighbors(g, u) \ (visited \cup {u})}

RECURSIVE ChainCost(_, _, _, _)
ChainCost(g, p, origin, current) ==
    IF current = origin THEN 0
    ELSE g[<<p[current], current>>].driving_time + ChainCost(g, p, origin, p[current])

\* C3: for every node reachable from the origin the predecessor chain is a path of the
\* graph whose total driving_time is the minimum over all directed paths
C3_ShortestChain ==
    op = "calculate_shortest_paths" =>
        \A v \in nodes \ {arg[1]} :
            LET costs == PathCosts(streets, arg[1], v, {})
            IN costs # {} =>
                  /\ v \in DOMAIN paths
                  /\ \A c \in costs : ChainCost(streets, paths, arg[1], v) <= c
                  /\ ChainCost(streets, paths, arg[1], v) \in costs

\* a chain of more than one street beats the direct street
C3_Witness ==
    /\ op = "calculate_shortest_paths"
    /\ \E v \in DOMAIN paths :
          /\ v # arg[1]
          /\ paths[v] # arg[1]
          /\ <<arg[1], v>> \in DOMAIN streets

IdealDrivingTime(s) ==
    DrivingTime(s.length, calculate_driving_speed(s.length, s.max_speed, 0, s.number_of_lanes))

C4_State ==
    (trips = <<>> /\ op = "step") =>
        /\ pc = "idle"
        /\ ~traffic_load.none
        /\ \A i \in DOMAIN traffic_load.array : traffic_load.array[i] = 0
        /\ \A s \in DOMAIN streets : streets[s].driving_time = IdealDrivingTime(streets[s])

C4_Repeat ==
    (trips = <<>> /\ op = "step" /\ step_counter' # step_counter) =>
        /\ step_counter' = step_counter + 1
        /\ UNCHANGED <<nodes, streets, street_index, streets_by_index, trips, jam_tolerance,
                       traffic_load, pc, error>>

\* C4: a step with an empty trips table leaves every load at zero and every driving_time
\* at its zero-load value, and a further such step changes nothing but the step counter
C4_EmptyTripsStep == []C4_State /\ [][C4_Repeat]_vars

C4_Witness ==
    /\ trips = <<>>
    /\ op = "step"
    /\ step_counter = 2
    /\ \E s \in DOMAIN streets : streets[s].driving_time # DrivingTime(streets[s].length, SpeedLimit(streets[s].max_speed))

\* C5: road_construction leaves the load array in place and the step after it does not fail
C5_StepAfterConstruction ==
    /\ (op = "road_construction" /\ pc = "idle") => ~traffic_load.none
    /\ ~(op = "step" /\ pc = "failed" /\ error = "TypeError")

\* C6: change_max_speed returns a true value exactly when max_speed has changed
C6_ReportsRealChange ==
    op = "change_max_speed" =>
        (Truthy(ret) <=> streets[arg].max_speed # pre_streets[arg].max_speed)

ConstructionReturned == op = "road_construction" /\ pc = "idle"

Position(s) == CHOOSE k \in 0 .. Len(sorted_traffic_load) - 1 : sorted_traffic_load[k + 1] = s

\* C8: road_construction lowers max_speed by 20 on the bottom 15% and raises it by 20 on
\* the top 5% of the streets in load order, and when no street is at a clamp bound it
\* modifies no street outside these windows
C8_Windows ==
    ConstructionReturned =>
        LET n == Len(sorted_traffic_load)
            bottom(s) == 100 * Position(s) <= 15 * n
            top(s) == 100 * Position(s) >= 95 * n
        IN /\ \A s \in DOMAIN streets :
                 /\ (bottom(s) /\ ~top(s)) => streets[s].max_speed = Max(1, pre_streets[s].max_speed - 20)
                 /\ (top(s) /\ ~bottom(s)) => streets[s].max_speed = Min(140, pre_streets[s].max_speed + 20)
           /\ (\A s \in DOMAIN streets : pre_streets[s].max_speed \in 21 .. 120) =>
                 \A s \in DOMAIN streets :
                     (~bottom(s) /\ ~top(s)) => streets[s].max_speed = pre_streets[s].max_speed

\* the trips table without the goals that are not in the predecessor map of their origin
WithoutUnreachable ==
    [k \in 1 .. Len(trips) |->
        IF KnownOrigin(k)
        THEN [origin |-> trips[k].origin,
              goals |-> SelectSeq(trips[k].goals, LAMBDA goal : goal \in DOMAIN PathsOf(k))]
        ELSE trips[k]]

HasUnreachableGoal ==
    \E k \in 1 .. Len(trips) :
        KnownOrigin(k) /\ \E m \in 1 .. Len(trips[k].goals) :
                              trips[k].goals[m] \in nodes \ DOMAIN PathsOf(k)

\* C9: the load and the outcome of a step are those of the same step on the trips table
\* without the unreachable goals, whose trips add nothing and raise nothing
C9_UnreachableGoalIgnored ==
    (op = "step" /\ error # "TypeError") =>
        LET r == assign_origins(streets, nodes, street_index, WithoutUnreachable, origin_nr)
        IN /\ traffic_load.array = r.load
           /\ (pc = "failed") <=> ~r.ok
           /\ (\A k \in 1 .. Len(trips) : KnownOrigin(k) /\ WithoutUnreachable[k].goals = <<>>)
                 => pc # "failed"

C9_Witness ==
    /\ op = "step"
    /\ pc = "idle"
    /\ HasUnreachableGoal
    /\ TotalLoad > 0

\* the trips table without the trips whose origin or goal is not a node of the graph
KnownTrips ==
    LET known == SelectSeq(trips, LAMBDA t : t.origin \in nodes)
    IN [k \in 1 .. Len(known) |->
           [origin |-> known[k].origin,
            goals |-> SelectSeq(known[k].goals, LAMBDA goal : goal \in nodes)]]

\* C10: a step ends as it would on the trips table without the trips that name an
\* unknown node: it does not abort because of them and accumulates every other trip
C10_UnknownNodeSkipped ==
    (op = "step" /\ error # "TypeError" /\ pc \in {"idle", "failed"}) =>
        LET r == assign_origins(streets, nodes, street_index, KnownTrips, Len(KnownTrips))
        IN /\ traffic_load.array = r.load
           /\ (pc = "failed") <=> ~r.ok

\* the edge sets of all simple directed paths from u to v that avoid visited
RECURSIVE SimplePaths(_, _, _, _)
SimplePaths(g, u, v, visited) ==
    IF u = v THEN {{}}
    ELSE UNION {{{<<u, w>>} \cup path : path \in SimplePaths(g, w, v, visited \cup {u})} :
                    w \in Neighbors(g, u) \ (visited \cup {u})}

\* the trips table holds one trip, between two nodes that a single path connects
SinglePathTrip ==
    /\ Len(trips) = 1
    /\ Len(trips[1].goals) = 1
    /\ trips[1].origin \in nodes
    /\ trips[1].goals[1] \in nodes
    /\ Cardinality(SimplePaths(streets, trips[1].origin, trips[1].goals[1], {})) = 1

TripPath == CHOOSE path \in SimplePaths(streets, trips[1].origin, trips[1].goals[1], {}) : TRUE

C11_Load ==
    (SinglePathTrip /\ op = "step" /\ pc # "assign") =>
        /\ pc = "idle"
        /\ \A s \in DOMAIN streets :
              traffic_load.array[streets[s].index] = IF s \in TripPath THEN trip_volume ELSE 0

C11_Reweighted ==
    (SinglePathTrip /\ op = "step" /\ pc = "idle" /\ step_counter' = step_counter + 1) =>
        \A s \in TripPath :
            streets'[s].driving_time =
                DrivingTime(streets[s].length, perceived_speed(streets[s], trip_volume, jam_tolerance))

\* C11: with one trip along a single path, after every step each street of the path has
\* load trip_volume and every other street load 0, and the next step sets the driving_time
\* of each street of the path from the speed at that load
C11_LoadResetEveryStep == []C11_Load /\ [][C11_Reweighted]_vars

\* the same on ascending paths only, where line 61 names the walked street itself
C11_Ascending ==
    (SinglePathTrip /\ op = "step" /\ pc # "assign" /\ \A s \in TripPath : s[1] < s[2]) =>
        /\ pc = "idle"
        /\ \A s \in DOMAIN streets :
              traffic_load.array[streets[s].index] = IF s \in TripPath THEN trip_volume ELSE 0

\* C12: the driving_time of every street is strictly positive
C12_PositiveDrivingTime == \A s \in DOMAIN streets : get_driving_time(streets, s) > 0

\* the same for streets of positive length
C12_PositiveLength ==
    \A s \in DOMAIN streets : streets[s].length > 0 => get_driving_time(streets, s) > 0

\* C13: after a change_max_speed call the street's max_speed is its previous value plus
\* the delta, clamped to [1, 140]: a request beyond a bound ends exactly at the bound;
\* no other street is changed
C13_Clamped ==
    op = "change_max_speed" =>
        LET requested == pre_streets[arg].max_speed + params.max_speed_delta
            max_speed == streets[arg].max_speed
        IN /\ max_speed \in 1 .. 140
           /\ requested \in 1 .. 140 => max_speed = requested
           /\ requested > 140 => max_speed = 140
           /\ requested < 1 => max_speed = 1
           /\ \A s \in DOMAIN streets \ {arg} : streets[s] = pre_streets[s]

\* a request beyond the upper bound, made after an earlier call
C13_Witness ==
    /\ op = "change_max_speed"
    /\ calls > 1
    /\ pre_streets[arg].max_speed < 140
    /\ pre_streets[arg].max_speed + params.max_speed_delta > 140
    /\ streets[arg].max_speed = 140

\* after road_construction every max_speed is within [1, 140]
C13_AfterConstruction ==
    op = "road_construction" => \A s \in DOMAIN streets : streets[s].max_speed \in 1 .. 140

C14_Dense ==
    LET N == Cardinality(DOMAIN streets)
    IN /\ {get_street_index(streets, s) : s \in DOMAIN streets} = 0 .. N - 1
       /\ street_index = N
       /\ \A s \in DOMAIN streets :
             get_street_by_index(streets_by_index, get_street_index(streets, s)) = s
       /\ \A i \in N .. N + 2 : get_street_by_index(streets_by_index, i) = <<>>

C14_Stable ==
    \A s \in DOMAIN streets :
        s \in DOMAIN streets' /\ get_street_index(streets', s) = get_street_index(streets, s)

\* C14: after any sequence of add_street calls, rejected ones included, the indices of the
\* N streets are exactly 0 .. N-1, street_index is N, get_street_by_index inverts
\* get_street_index and finds nothing from N on, and no street ever changes its index
C14_DenseIndices == []C14_Dense /\ [][C14_Stable]_vars

\* three streets are in the graph and the last call tried to add one of them again
C14_Witness ==
    /\ op = "add_street"
    /\ error = "AdditionError"
    /\ arg \in DOMAIN streets
    /\ Cardinality(DOMAIN streets) = 3

C15_Step ==
    /\ op' = "add_street" =>
          /\ arg' \in DOMAIN streets =>
                /\ error' = "AdditionError"
                /\ UNCHANGED <<streets, street_index, streets_by_index>>
          /\ (arg' \notin DOMAIN streets /\ <<arg'[2], arg'[1]>> \in DOMAIN streets) =>
                /\ error' = ""
                /\ arg' \in DOMAIN streets'
                /\ get_street_index(streets', arg') = street_index
                /\ \A s \in DOMAIN streets :
                      /\ get_street_index(streets', arg') # get_street_index(streets, s)
                      /\ streets'[s] = streets[s]
                      /\ get_street_by_index(streets_by_index', get_street_index(streets, s)) = s
    /\ op' = "build_street_network" =>
          \A s \in DOMAIN streets :
              /\ s \in DOMAIN streets'
              /\ streets'[s] = streets[s]
              /\ get_street_by_index(streets_by_index', get_street_index(streets, s)) = s

\* C15: adding a directed pair that exists is rejected (add_street) or skipped
\* (build_street_network): the street, the index counter and the index-to-street map stay
\* as they are; adding the reverse of an existing pair makes a street with a new index
C15_DuplicateRejected == [][C15_Step]_vars

\* a pair was added after its reverse, and the last call tried to add it again
C15_Witness ==
    /\ op = "add_street"
    /\ error = "AdditionError"
    /\ arg \in DOMAIN streets
    /\ <<arg[2], arg[1]>> \in DOMAIN streets
    /\ get_street_index(streets, arg) > get_street_index(streets, <<arg[2], arg[1]>>)

C16_Unstepped ==
    pc = "build" =>
        \A s \in DOMAIN streets :
            LET a == get_street_attributes(streets, s)
            IN get_driving_time(streets, s) = (a[3] * 10000) \div (a[4] * 10)

C16_Step ==
    (op' = "add_street" /\ error' = "") =>
        /\ get_street_attributes(streets', arg') =
              <<arg', street_index, params'.length, params'.max_speed, params'.number_of_lanes>>
        /\ get_driving_time(streets', arg') = (params'.length * 10000) \div (params'.max_speed * 10)
        /\ \A s \in DOMAIN streets :
              /\ get_street_attributes(streets', s) = get_street_attributes(streets, s)
              /\ get_driving_time(streets', s) = get_driving_time(streets, s)

\* C16: after add_street the street's attributes are the length, max_speed and lanes passed
\* and the index assigned, its driving_time is length / max_speed, and adding other
\* streets changes none of them
C16_AddThenGet == []C16_Unstepped /\ [][C16_Step]_vars

\* a second street was added, 10 m long at 50 km/h
C16_Witness ==
    /\ op = "add_street"
    /\ error = ""
    /\ Cardinality(DOMAIN streets) >= 2
    /\ get_street_attributes(streets, arg) = <<arg, street_index - 1, 10, 50, 2>>
    /\ get_driving_time(streets, arg) = 200

C17_Limit ==
    op = "calculate_driving_speed" => ret <= SpeedLimit(params.max_speed)

C17_Step ==
    (op = "calculate_driving_speed" /\ op' = "calculate_driving_speed"
        /\ params'.number_of_trips >= params.number_of_trips) => ret' <= ret

\* C17: for a fixed street, calculate_driving_speed at a load that is not smaller gives a
\* speed that is not greater, and the speed never exceeds max_speed
C17_Monotone == []C17_Limit /\ [][C17_Step]_vars

\* a load under which the street is slower than when empty, and slower than its limit
C17_Witness ==
    /\ op = "calculate_driving_speed"
    /\ params.number_of_trips > 0
    /\ ret < SpeedLimit(params.max_speed)
    /\ ret < calculate_driving_speed(params.street_length, params.max_speed, 0,
                                     params.number_of_lanes)

C18_Step ==
    (step_counter' = step_counter + 1 /\ pc' # "failed") =>
        \A s \in DOMAIN streets :
            LET load == traffic_load.array[get_street_index(streets, s)]
                a == streets[s]
                ideal == DrivingTime(a.length,
                             calculate_driving_speed(a.length, a.max_speed, 0, a.number_of_lanes))
                actual == DrivingTime(a.length,
                             calculate_driving_speed(a.length, a.max_speed, load, a.number_of_lanes))
            IN /\ jam_tolerance = 10 => get_driving_time(streets', s) = ideal
               /\ jam_tolerance = 0 => get_driving_time(streets', s) = actual
               /\ ideal <= get_driving_time(streets', s)
               /\ get_driving_time(streets', s) <= actual
               /\ perceived_speed(a, load, jam_tolerance) >=
                     calculate_driving_speed(a.length, a.max_speed, load, a.number_of_lanes)
               /\ perceived_speed(a, load, jam_tolerance) <=
                     calculate_driving_speed(a.length, a.max_speed, 0, a.number_of_lanes)

RECURSIVE NumberOfGoals(_, _)
NumberOfGoals(T, n) == IF n = 0 THEN 0 ELSE Len(T[n].goals) + NumberOfGoals(T, n - 1)

\* C19: generate_trips returns whenever both populations have an element; the mapping it
\* returns has one entry per origin, number_of_residents goals in all, every origin from
\* potential_origins and every goal from potential_goals, and the assertion holds
C19_GeneratedTrips ==
    op = "generate_trips" =>
        /\ (params.potential_origins # {} /\ params.potential_goals # {}) => error = ""
        /\ error # "AssertionError"
        /\ error = "" =>
              /\ NumberOfGoals(trips, Len(trips)) = params.number_of_residents
              /\ ret = params.number_of_residents
              /\ \A k \in 1 .. Len(trips) :
                    /\ trips[k].origin \in params.potential_origins
                    /\ \A m \in 1 .. Len(trips[k].goals) :
                          trips[k].goals[m] \in params.potential_goals
                    /\ \A j \in 1 .. Len(trips) : j # k => trips[j].origin # trips[k].origin

\* three residents share one origin and two of them the goal, out of several of each
C19_Witness ==
    /\ op = "generate_trips"
    /\ error = ""
    /\ Cardinality(params.potential_origins) > 1
    /\ Len(trips) = 1
    /\ Len(trips[1].goals) = 3
    /\ trips[1].goals[1] = trips[1].goals[3]
    /\ trips[1].goals[1] # trips[1].goals[2]

LoadWrites == SelectSeq(persist_writes, LAMBDA w : w.filename[1] = "traffic_load")

C20_Loads ==
    /\ Len(LoadWrites) = step
    /\ \A k \in 1 .. step : LoadWrites[k].filename = <<"traffic_load", k>>
    /\ (pc = "idle" /\ line = "loop" /\ step > 0) =>
          /\ ~traffic_load.none
          /\ LoadWrites[step].data = traffic_load.array
    /\ pc = "idle" => step_counter = step

C20_Construction ==
    (line = "loop" /\ op' = "road_construction") =>
        persist_writes' =
            Append(persist_writes, persist_write(<<"street_network", step + 1>>, streets'))

\* C20: in the driver loop the load of each completed step k is persisted once, under k,
\* in increasing order, and every road construction is followed by persisting the network
C20_PersistedOncePerStep == []C20_Loads /\ [][C20_Construction]_vars

\* only as long as the setting persist_traffic_load is on and road_construction returns
C20_ConstructionWhenSet ==
    (line = "loop" /\ op' = "road_construction" /\ settings.persist_traffic_load
        /\ pc' = "idle") =>
        persist_writes' =
            Append(persist_writes, persist_write(<<"street_network", step + 1>>, streets'))

C20_WhenSet == []C20_Loads /\ [][C20_ConstructionWhenSet]_vars

C21_Frame ==
    /\ UNCHANGED <<nodes, street_index, streets_by_index, trips>>
    /\ DOMAIN streets' = DOMAIN streets
    /\ \A s \in DOMAIN streets :
          /\ streets'[s].index = streets[s].index
          /\ streets'[s].length = streets[s].length
          /\ streets'[s].max_speed = streets[s].max_speed
          /\ streets'[s].number_of_lanes = streets[s].number_of_lanes
    /\ (pc = "assign") => (streets' = streets /\ step_counter' = step_counter)
    /\ (pc = "idle" /\ pc' # "failed") =>
          /\ step_counter' = step_counter + 1
          /\ \A s \in DOMAIN streets :
                streets'[s].driving_time =
                    DrivingTime(streets[s].length,
                                perceived_speed(streets[s], traffic_load.array[streets[s].index],
                                                jam_tolerance))

\* C21: a step writes every driving_time once, at its start, from the load of the previous
\* step; while the trips are assigned no driving_time changes; and over the whole step
\* the nodes, the set of streets, their indices, lengths, speed limits and lanes, and the
\* trips table stay as they were
C21_FrameEffect == [][C21_Frame]_vars

\* the second step is assigning trips on weights that the load of the first step has set
C21_Witness ==
    /\ op = "step"
    /\ pc = "assign"
    /\ step_counter = 2
    /\ origin_nr >= 1
    /\ \E s \in DOMAIN streets : streets[s].driving_time # IdealDrivingTime(streets[s])

\* the orders in which the elements of a sequence can be taken
PermsOf(s) ==
    {[i \in 1 .. Len(s) |-> s[f[i]]] :
        f \in {f \in [1 .. Len(s) -> 1 .. Len(s)] :
                  \A i, j \in 1 .. Len(s) : i # j => f[i] # f[j]}}

\* the trips table T with the goals of every origin in any order
RECURSIVE GoalOrders(_)
GoalOrders(T) ==
    IF T = <<>> THEN {<<>>}
    ELSE {<<[origin |-> Head(T).origin, goals |-> gs]>> \o rest :
              gs \in PermsOf(Head(T).goals), rest \in GoalOrders(Tail(T))}

\* the trips table T with its origins, and the goals of every origin, in any order
ProcessingOrders(T) == UNION {PermsOf(U) : U \in GoalOrders(T)}

\* the load array of origin number k alone, on the weights of the state
OriginLoad(k) == assign_origin(streets, nodes, zero_load(street_index).array, trips[k]).load

\* C22: the load array of a completed step is the entry-wise sum of the load arrays of
\* its origins, each computed alone on the same weights, and every order of the origins
\* and of the goals of each origin gives that array; a step that fails fails in every order
C22_OrderIndependent ==
    (op = "step" /\ pc \in {"idle", "failed"} /\ ~traffic_load.none) =>
        /\ \A U \in ProcessingOrders(trips) :
              LET r == assign_origins(streets, nodes, street_index, U, Len(U))
              IN /\ r.ok = (pc = "idle")
                 /\ pc = "idle" => r.load = traffic_load.array
        /\ pc = "idle" =>
              \A i \in DOMAIN traffic_load.array :
                  traffic_load.array[i] =
                      SumOver([k \in 1 .. Len(trips) |-> OriginLoad(k)[i]], 1 .. Len(trips))

\* a completed step in which two origins have both added to one load entry
C22_Witness ==
    /\ op = "step"
    /\ pc = "idle"
    /\ Len(trips) = 2
    /\ \E i \in DOMAIN traffic_load.array :
          /\ OriginLoad(1)[i] > 0
          /\ OriginLoad(2)[i] > 0
          /\ traffic_load.array[i] = OriginLoad(1)[i] + OriginLoad(2)[i]

C23_Run ==
    /\ pc # "failed"
    /\ step_counter <= settings.max_simulation_steps
    /\ line = "done" => step_counter = settings.max_simulation_steps

C23_Schedule ==
    /\ op' = "road_construction" =>
          /\ op # "road_construction"
          /\ line = "loop"
          /\ step > 0
          /\ step % settings.steps_between_street_construction = 0
    /\ step_counter' # step_counter =>
          /\ step_counter' = step_counter + 1
          /\ step_counter = step
          /\ (step > 0 /\ step % settings.steps_between_street_construction = 0) <=>
                (op = "road_construction")

\* C23: the run makes max_simulation_steps calls of step and then is done, never ending
\* before; road_construction is called at the loop indices s > 0 that are multiples of
\* steps_between_street_construction and at no other, before the step of that index and
\* once only
C23_DriverSchedule == []C23_Run /\ [][C23_Schedule]_vars

\* the schedule alone, which holds as far as a run gets
C23_ScheduleWhileRunning == [][pc' # "failed" => C23_Schedule]_vars

\* C24: the step counter is the number of completed steps, also after a step that failed
C24_CounterIsCompletedSteps == step_counter = step

\* the counter is the number of steps begun
C24_CounterIsBegunSteps == step_counter = step + (IF pc = "failed" /\ op = "step" THEN 1 ELSE 0)

C26_Fatal ==
    /\ error # "" => UNCHANGED vars
    /\ (error = "" /\ error' # "") =>
          /\ pc' = "failed"
          /\ UNCHANGED <<step, line, persist_writes>>
          /\ (op' = "step" /\ error' # "TypeError") =>
                /\ step_counter' = step_counter + 1
                /\ streets' = reweight(streets, traffic_load.array, jam_tolerance)
                /\ ~traffic_load'.none

\* C26: an exception raised in a step ends the run: the driver takes no further step, no
\* road construction and writes no further file, and what the step had written before
\* it failed (counter, driving times, load array) stays written
C26_FailureIsFatal == [][C26_Fatal]_vars

\* a step has failed after the run had completed a step, with steps still to go
C26_Witness ==
    /\ pc = "failed"
    /\ op = "step"
    /\ step >= 1
    /\ step < settings.max_simulation_steps
    /\ Len(persist_writes) >= 1

\* following the predecessors from current reaches origin, visiting no node of visited
\* again, after no more hops than there are other nodes
RECURSIVE ChainReaches(_, _, _, _)
ChainReaches(p, origin, current, visited) ==
    IF current = origin THEN Cardinality(visited) <= Cardinality(nodes) - 1
    ELSE /\ current \notin visited
         /\ current \in DOMAIN p
         /\ ChainReaches(p, origin, p[current], visited \cup {current})

C25_Chains ==
    op = "calculate_shortest_paths" =>
        \A v \in DOMAIN paths : ChainReaches(paths, arg[1], v, {})

\* C25: the predecessor map holds a node iff the node is reachable from the origin and
\* is not the origin, and the predecessors of every node of the map lead to the origin
\* within |nodes| - 1 hops without a node twice
C25_MapExcludesOrigin ==
    /\ op = "calculate_shortest_paths" =>
          \A v \in nodes :
              v \in DOMAIN paths <=> (v # arg[1] /\ PathCosts(streets, arg[1], v, {}) # {})
    /\ C25_Chains

\* the same with the origin in the map, where its predecessor is None
C25_MapIncludesOrigin ==
    /\ op = "calculate_shortest_paths" =>
          /\ \A v \in nodes : v \in DOMAIN paths <=> PathCosts(streets, arg[1], v, {}) # {}
          /\ paths[arg[1]] = None
          /\ \A v \in DOMAIN paths \ {arg[1]} : paths[v] \in DOMAIN paths
    /\ C25_Chains

\* a map with a chain of two hops that leaves out a node as unreachable
C25_Witness ==
    /\ op = "calculate_shortest_paths"
    /\ arg[1] \in DOMAIN paths
    /\ \E v \in nodes : v \notin DOMAIN paths
    /\ \E v \in DOMAIN paths : paths[v] # None /\ paths[paths[v]] = arg[1]

\* the trips of the table that traverse the directed street s
TripsOver(s) == {t \in ReachableTrips(Len(trips)) : s \in EdgesOfTrip(t)}

\* C27: on a network built by GraphBuilder every street has its opposite street, and
\* after every step each street (a, b) with a > b has load 0 while the street (a, b)
\* with a < b has the load of the trips of both directions; no lookup fails
C27_LoadOnAscendingStreet ==
    /\ \A s \in DOMAIN streets : <<s[2], s[1]>> \in DOMAIN streets
    /\ error # "LookupError"
    /\ ~traffic_load.none
    /\ \A s \in DOMAIN streets :
          s[1] > s[2] => traffic_load.array[streets[s].index] = 0
    /\ (op = "step" /\ pc = "idle") =>
          \A s \in DOMAIN streets :
              s[1] < s[2] =>
                  traffic_load.array[streets[s].index] =
                      trip_volume * (Cardinality(TripsOver(s))
                                     + Cardinality(TripsOver(<<s[2], s[1]>>)))

\* a completed step with a trip over a street (a, b) with a > b
C27_Witness ==
    /\ op = "step"
    /\ pc = "idle"
    /\ \E s \in DOMAIN streets :
          /\ s[1] > s[2]
          /\ TripsOver(s) # {}
          /\ traffic_load.array[streets[s].index] = 0
          /\ traffic_load.array[streets[<<s[2], s[1]>>].index] > 0

\* the number that a sequence of decimal digits denotes
RECURSIVE DecimalValue(_)
DecimalValue(d) ==
    IF d = <<>> THEN 0 ELSE 10 * DecimalValue(SubSeq(d, 1, Len(d) - 1)) + d[Len(d)]

\* traffic_load_k.pystreets with k >= 1 written without a leading zero
Canonical(name) ==
    /\ name.stem = "traffic_load_"
    /\ name.ext = ".pystreets"
    /\ Len(name.digits) >= 1
    /\ name.digits[1] # 0

\* the files of the directory that the expression of line 48 finds
Matching == {name \in all_files : traffic_load_filename_expression(name)}

C28_Loop ==
    /\ (\E name \in Matching : ~Canonical(name)) =>
          /\ line # "complete"
          /\ line = "while" =>
                \A name \in Matching : ~Canonical(name) => name \in traffic_load_files
    /\ line = "complete" =>
          /\ {renders[i] : i \in 1 .. Len(renders)} =
                {DecimalValue(name.digits) : name \in Matching}
          /\ \A i \in 1 .. Len(renders) - 1 : renders[i] < renders[i + 1]
          /\ visualize_step = IF renders = <<>> THEN 0 ELSE renders[Len(renders)]
          /\ \A n \in 0 .. MaxSimulationSteps :
                Matching = {traffic_load_filename(k) : k \in 1 .. n} =>
                    /\ visualize_step = n
                    /\ renders = [k \in 1 .. n |-> k]

====
